---- MODULE Spec2Model ----
(***************************************************************************)
(* Call session orchestrator of memharbor-server: the Firestore call       *)
(* records (api/firebase_service.py), the in-process missed-call timers    *)
(* and the Django handlers (api/views/calls.py), the push dispatcher       *)
(* (api/push_service.py).                                                  *)
(*                                                                         *)
(* Granularity: one step per access to the store or to the timer table.    *)
(* Every handler reads the record, decides on the copy it read, and then   *)
(* writes; other requests and timer threads run between those steps.       *)
(*                                                                         *)
(* call_invite raises TypeError at calls.py:86 (generate_channel_name has  *)
(* one parameter, utils.py:43, and is called with three), so it never      *)
(* reaches create_call_record and _schedule_missed_timeout.  Those two     *)
(* functions, reserve_push_send and send_incoming_call_push are therefore  *)
(* modelled as operations a caller invokes directly; so is                 *)
(* update_push_status, which no handler calls.                             *)
(***************************************************************************)
EXTENDS Integers, Sequences, FiniteSets, TLC

\* ------------------------------------------------------------- bounds
MaxCalls == 2          \* call ids (uuid4 values) the model hands out
MaxReqs == 2           \* HTTP requests / service calls started in one run
MaxTime == 2           \* the clock runs 0..MaxTime (seconds)
MaxTimers == 1         \* threading.Timer objects created in one run of Spec
MaxTimerObjects == 3   \* threading.Timer objects created in one run of SpecTimers
MaxDelay == 1          \* timeout_seconds passed to _schedule_missed_timeout
MaxSweepTimeout == 1   \* timeout_seconds posted to call/timeout/sweep
MaxDispatch == 1       \* direct calls of send_incoming_call_push
\* Calls of update_push_status in one run.
MaxPushUpdates == 1

CallIds == 1..MaxCalls
Reqs == 1..MaxReqs
TimerIds == 1..MaxTimerObjects
Times == 0..MaxTime

\* Python None / a present value, for optional fields.
None == <<>>
Some(x) == <<x>>
Val(o) == o[1]

\* ------------------------------------------------------------- datetimes
\* A Python datetime: an instant and whether it carries a tzinfo.
\* datetime.utcnow() is naive, timezone.now() is aware (USE_TZ = True).
utcnow(t) == [t |-> t, aware |-> FALSE]
timezone_now(t) == [t |-> t, aware |-> TRUE]

\* What Firestore keeps of a datetime written to it: the instant (a naive
\* value is taken as UTC, and TIME_ZONE is UTC).
ToStore(dt) == dt.t

\* A timestamp field read back from Firestore is an aware datetime.
FromStore(o) == IF o = None THEN None ELSE Some([t |-> Val(o), aware |-> TRUE])

\* utils.normalize_datetime: None stays None; every datetime has .timestamp,
\* so the first branch returns an aware datetime at the same instant.
normalize_datetime(value) ==
    IF value = None THEN None
    ELSE Some([t |-> Val(value).t, aware |-> TRUE])

\* datetime.__sub__ followed by int(total_seconds()): Python raises TypeError
\* when one operand is naive and the other aware.
\* The result is [raised, val]: raised stands for the TypeError.
DurationSeconds(a, b) ==
    IF a.aware # b.aware THEN [raised |-> TRUE, val |-> 0]
    ELSE [raised |-> FALSE, val |-> a.t - b.t]

\* utils.generate_channel_name(call_id): declared with ONE parameter.  A call
\* with any other number of positional arguments raises TypeError.
generate_channel_name(args) ==
    IF Len(args) = 1 THEN [raised |-> FALSE, val |-> args[1]]
    ELSE [raised |-> TRUE, val |-> 0]

\* ------------------------------------------------------------- state
VARIABLES
    dbAvailable,   \* firestore_service.is_available()
    now,           \* wall clock, seconds
    calls,         \* Firestore collection calls/{callId}
    req,           \* the requests: handler, arguments, position, locals, response
    timers,        \* the threading.Timer objects
    table,         \* _missed_timers: callId -> timer (0: no entry)
    pushLog,       \* per call id: sends of the incoming-call push, and the
                   \* requests that went out to a gateway, by kind
    lastPush       \* PushResult of the last send_incoming_call_push

vars == <<dbAvailable, now, calls, req, timers, table, pushLog, lastPush>>

\* A document of calls/: create_call_record's call_data, plus the fields
\* reserve_push_send and update_push_status add.  ver stands for the
\* document's update_time.  "-" and 0: the field is not in the document.
AbsentDoc ==
    [exists |-> FALSE, status |-> "none", createdAt |-> None,
     answeredAt |-> None, endedAt |-> None, durationSec |-> None,
     pushSent |-> FALSE, pushReservedAt |-> None, ver |-> 0,
     callId |-> 0, channelName |-> 0, groupId |-> "-", receiverId |-> "-",
     caregiverUserId |-> "-", groupNameSnapshot |-> "-",
     giverNameSnapshot |-> "-", receiverNameSnapshot |-> "-",
     pushPlatform |-> "-", updatedAt |-> None]

\* The arguments a caller of create_call_record passes besides call_id: the
\* channel name made from the call id, and the ids; caller_name and the two
\* name snapshots are left at their default "".
GroupId == "g1"
CallerId == "u1"
ReceiverId == "u2"

\* call_data with the durationSec of the docstring, 0, in place of None.
NewCallDoc_zero_duration(t) ==
    [AbsentDoc EXCEPT
       !.exists = TRUE, !.status = "pending",
       !.createdAt = Some(ToStore(timezone_now(t))), !.ver = 1,
       !.groupId = GroupId, !.receiverId = ReceiverId,
       !.caregiverUserId = CallerId, !.groupNameSnapshot = "",
       !.giverNameSnapshot = CallerId, !.receiverNameSnapshot = "",
       !.durationSec = Some(0)]

NewCallDoc(t) ==
    [AbsentDoc EXCEPT
       !.exists = TRUE, !.status = "pending",
       !.createdAt = Some(ToStore(timezone_now(t))), !.ver = 1,
       !.groupId = GroupId, !.receiverId = ReceiverId,
       !.caregiverUserId = CallerId, !.groupNameSnapshot = "",
       !.giverNameSnapshot = CallerId, !.receiverNameSnapshot = ""]

\* ------------------------------------------------------------- responses
\* The JSON a handler answers with: kind is "success" or the error name;
\* record: the fields of the call call_status answers with.
\* reserve_push_send's outcome is kept the same way.
NoResp == [kind |-> "none", currentStatus |-> "-", status |-> "-",
           count |-> 0, timeout |-> 0, duration |-> None, pushError |-> "-",
           record |-> None]
Resp(kind) == [NoResp EXCEPT !.kind = kind]
Conflict(kind, st) == [NoResp EXCEPT !.kind = kind, !.currentStatus = st]
Success(st) == [NoResp EXCEPT !.kind = "success", !.status = st]

\* A request slot.  op "none": not started.  arg: call_end's local `duration`,
\* sweep's timeout_seconds.
\* newStatus/key/dur: the arguments the handler passes to update_call_status.
\* t0: call_end's ended_at.  sel: the docs of sweep's query.
\* readVer/attempt: the transaction of reserve_push_send.
\* fault: some store call of the request raised (a ghost of the model).
\* A finished request keeps op, cid, attempt, fault and its response.
IdleReq ==
    [op |-> "none", cid |-> 0, arg |-> <<>>, pc |-> "idle",
     newStatus |-> "-", key |-> "-", dur |-> None, t0 |-> 0, sel |-> {},
     readVer |-> 0, attempt |-> 0, fault |-> FALSE, resp |-> NoResp]

\* A threading.Timer running _timeout_handler for cid: unused, waiting (started,
\* not fired), cancelled, then the handler's positions write / pop, and done.
\* remaining: the seconds left before a waiting timer is due.
\* fault: a store call of the handler raised (a ghost of the model).
IdleTimer == [state |-> "unused", cid |-> 0, remaining |-> 0, fault |-> FALSE]

NoPush == [success |-> FALSE, platform |-> "-", error |-> "-", error_code |-> "-"]

Init ==
    /\ dbAvailable \in BOOLEAN
    /\ now = 0
    /\ calls = [c \in CallIds |-> AbsentDoc]
    /\ req = [r \in Reqs |-> IdleReq]
    /\ timers = [t \in TimerIds |-> IdleTimer]
    /\ table = [c \in CallIds |-> 0]
    /\ pushLog = [c \in CallIds |-> [sends |-> 0, incoming |-> 0, cancelled |-> 0, updates |-> 0]]
    /\ lastPush = NoPush

\* Requests are started in slot order, and a slot is used once.
CanStart(r) ==
    /\ req[r].pc = "idle"
    /\ IF r = 1 THEN TRUE ELSE req[r - 1].pc # "idle"

\* ------------------------------------------------------------- clock
Tick ==
    /\ now < MaxTime
    /\ now' = now + 1
    /\ timers' = [t \in TimerIds |->
                    IF timers[t].state = "waiting" /\ timers[t].remaining > 0
                    THEN [timers[t] EXCEPT !.remaining = @ - 1] ELSE timers[t]]
    /\ UNCHANGED <<dbAvailable, calls, req, table, pushLog, lastPush>>

\* ------------------------------------------------------------- store
\* get_call_record without the doc.exists test.
get_call_record_unchecked(c, fault) ==
    IF ~dbAvailable \/ fault THEN None ELSE Some(calls[c])

\* FirestoreService.get_call_record: None when the client is missing, when
\* the read raises, or when the document does not exist.
get_call_record(c, fault) ==
    IF ~dbAvailable \/ fault \/ ~calls[c].exists THEN None ELSE Some(calls[c])

\* FirestoreService.create_call_record, on a call id fresh from uuid4.
create_call_record(c) ==
    /\ dbAvailable
    /\ ~calls[c].exists
    /\ IF c = 1 THEN TRUE ELSE calls[c - 1].exists
    /\ calls' = [calls EXCEPT ![c] = [NewCallDoc(now) EXCEPT
                                        !.callId = c,
                                        !.channelName = generate_channel_name(<<c>>).val]]
    /\ UNCHANGED <<dbAvailable, now, req, timers, table, pushLog, lastPush>>

\* update_call_status writing update_data with set() in place of update():
\* the document is replaced by the fields written.
UpdatedDoc_set(doc, status, key, dt, dur) ==
    [AbsentDoc EXCEPT !.exists = TRUE, !.status = status,
                      !.answeredAt = IF key = "answeredAt" THEN Some(ToStore(dt)) ELSE @,
                      !.endedAt = IF key = "endedAt" THEN Some(ToStore(dt)) ELSE @,
                      !.durationSec = IF dur # None THEN dur ELSE @,
                      !.createdAt = doc.createdAt,
                      !.ver = doc.ver + 1]

\* update_call_status with the optional fields left out of update_data.
UpdatedDoc_status_only(doc, status, key, dt, dur) ==
    [doc EXCEPT !.status = status, !.ver = @ + 1]

\* The document update_call_status writes: status, and the one or two optional
\* fields the caller passed.  No condition on the status already stored.
UpdatedDoc(doc, status, key, dt, dur) ==
    [doc EXCEPT !.status = status,
                !.answeredAt = IF key = "answeredAt" THEN Some(ToStore(dt)) ELSE @,
                !.endedAt = IF key = "endedAt" THEN Some(ToStore(dt)) ELSE @,
                !.durationSec = IF dur # None THEN dur ELSE @,
                !.ver = @ + 1]

\* ------------------------------------------------------------- timers
\* _cancel_missed_timeout emptying the table, clear() in place of pop().
TableAfterCancel_clear(c) == [b \in CallIds |-> 0]

\* _cancel_missed_timeout, under _missed_timers_lock: pop the entry and cancel
\* the timer popped.  Timer.cancel() only stops a timer that has not fired.
TableAfterCancel(c) == [table EXCEPT ![c] = 0]

\* A cancel() that also stops a timer whose handler is running.
TimersAfterCancel_any(c) ==
    IF table[c] = 0 THEN timers
    ELSE [timers EXCEPT ![table[c]] = [@ EXCEPT !.state = "cancelled", !.remaining = 0]]

TimersAfterCancel(c) ==
    IF table[c] = 0 THEN timers
    ELSE [timers EXCEPT ![table[c]] =
             IF @.state = "waiting" THEN [@ EXCEPT !.state = "cancelled", !.remaining = 0]
             ELSE @]

\* ------------------------------------------------------------- push
Platforms == {"ios", "android", "web"}
Tokens == {None, Some("tok")}
ApnsAnswers == {"not_configured", "key_error", "ok", "rejected", "timeout", "exception"}
FcmAnswers == {"not_configured", "ok", "unregistered", "mismatch", "exception"}

PushResult(success, platform, error, code) ==
    [success |-> success, platform |-> platform, error |-> error, error_code |-> code]

\* APNsVoIPService.send_voip_push, by what the gateway answers.  key_error:
\* _generate_token, called before the try (push_service.py:106), raises on a
\* private key jwt cannot load; the exception leaves the function, shown here
\* as the result "raised".
send_voip_push(g) ==
    CASE g = "not_configured" -> PushResult(FALSE, "ios", "APNs not configured", "not_configured")
      [] g = "key_error" -> PushResult(FALSE, "ios", "raised", "raised")
      [] g = "ok" -> PushResult(TRUE, "ios", "-", "-")
      [] g = "rejected" -> PushResult(FALSE, "ios", "BadDeviceToken", "400")
      [] g = "timeout" -> PushResult(FALSE, "ios", "Request timeout", "timeout")
      [] OTHER -> PushResult(FALSE, "ios", "exception", "exception")

\* FCMService.send_data_message, by what the SDK answers.
send_data_message(g) ==
    CASE g = "not_configured" -> PushResult(FALSE, "android", "FCM not configured", "not_configured")
      [] g = "ok" -> PushResult(TRUE, "android", "-", "-")
      [] g = "unregistered" -> PushResult(FALSE, "android", "Token unregistered", "UNREGISTERED")
      [] g = "mismatch" -> PushResult(FALSE, "android", "Sender ID mismatch", "SENDER_ID_MISMATCH")
      [] OTHER -> PushResult(FALSE, "android", "exception", "exception")

\* The branches taken on the platform alone, without the token tests.
PushTarget_platform_only(platform, fcm_token, voip_token) ==
    IF platform = "ios" THEN "apns"
    ELSE IF platform = "android" THEN "fcm"
    ELSE "none"

\* The gateway a send addresses: "apns", "fcm" or "none" (the else branch).
PushTarget(platform, fcm_token, voip_token) ==
    IF platform = "ios" /\ voip_token # None THEN "apns"
    ELSE IF platform = "android" /\ fcm_token # None THEN "fcm"
    ELSE "none"

\* PushNotificationService.send_incoming_call_push
send_incoming_call_push(platform, fcm_token, voip_token, g) ==
    LET target == PushTarget(platform, fcm_token, voip_token) IN
    IF target = "apns" THEN send_voip_push(g)
    ELSE IF target = "fcm" THEN send_data_message(g)
    ELSE PushResult(FALSE, platform,
                    CASE platform = "ios" -> "Missing voipToken for ios"
                      [] platform = "android" -> "Missing fcmToken for android"
                      [] OTHER -> "Missing fcmToken for web",
                    "missing_token")

\* PushNotificationService.send_call_cancelled_push
send_call_cancelled_push(platform, fcm_token, voip_token, g) ==
    LET target == PushTarget(platform, fcm_token, voip_token) IN
    IF target = "apns" THEN send_voip_push(g)
    ELSE IF target = "fcm" THEN send_data_message(g)
    ELSE PushResult(FALSE, platform, "No valid token", "missing_token")

\* A request went out to a gateway unless there was no target, the service
\* was not configured (the two returns before the network call) or the token
\* could not be generated.
NetworkCall(target, error_code) ==
    target # "none" /\ error_code \notin {"not_configured", "raised"}

\* FirestoreService.get_user_tokens: None (client missing or read raised),
\* {exists: False}, or the three fields of users/{uid}.  The users collection
\* is written by the apps, so a lookup may find any document.
UserLookups ==
    {[ok |-> FALSE, exists |-> FALSE, platform |-> "-", fcmToken |-> None, voipToken |-> None],
     [ok |-> TRUE, exists |-> FALSE, platform |-> "-", fcmToken |-> None, voipToken |-> None]}
    \cup [ok : {TRUE}, exists : {TRUE}, platform : Platforms,
          fcmToken : Tokens, voipToken : Tokens]

\* ------------------------------------------------------------- handlers
\* A store read may raise only where there is a client to raise.
Faults == IF dbAvailable THEN BOOLEAN ELSE {FALSE}

Started(op, c, fault) ==
    [IdleReq EXCEPT !.op = op, !.cid = c, !.fault = fault]

\* The handler goes on to update_call_status(call_id, status, key=utcnow()).
ToUpdate(r, q, status, key, dur) ==
    [req EXCEPT ![r] = [q EXCEPT !.pc = "update", !.newStatus = status,
                                  !.key = key, !.dur = dur]]

Ends(r, q, resp) ==
    [req EXCEPT ![r] = [IdleReq EXCEPT !.op = q.op, !.cid = q.cid, !.pc = "done",
                                       !.attempt = q.attempt, !.fault = q.fault,
                                       !.resp = resp]]

InviteIds == {"", "id"}

\* call_invite without the is_available test of lines 79-83.
call_invite_unchecked(r, group_id, caller_id, receiver_id) ==
    /\ CanStart(r)
    /\ LET q == Started("invite", 0, FALSE)
           channel_name == generate_channel_name(<<group_id, caller_id, receiver_id>>)
       IN req' =
             IF group_id = "" \/ caller_id = "" \/ receiver_id = ""
             THEN Ends(r, q, Resp("missing_fields"))
             ELSE IF channel_name.raised THEN Ends(r, q, Resp("server_error"))
             ELSE [req EXCEPT ![r] = [q EXCEPT !.pc = "create"]]
    /\ UNCHANGED <<dbAvailable, now, calls, timers, table, pushLog, lastPush>>

\* call_invite with receiver_id left out of the all([...]) test.
call_invite_two_fields(r, group_id, caller_id, receiver_id) ==
    /\ CanStart(r)
    /\ LET q == Started("invite", 0, FALSE)
           channel_name == generate_channel_name(<<group_id, caller_id, receiver_id>>)
       IN req' =
             IF group_id = "" \/ caller_id = ""
             THEN Ends(r, q, Resp("missing_fields"))
             ELSE IF ~dbAvailable THEN Ends(r, q, Resp("firestore_unavailable"))
             ELSE IF channel_name.raised THEN Ends(r, q, Resp("server_error"))
             ELSE [req EXCEPT ![r] = [q EXCEPT !.pc = "create"]]
    /\ UNCHANGED <<dbAvailable, now, calls, timers, table, pushLog, lastPush>>

\* call_invite, calls.py:66-86.  uuid4 and generate_channel_name touch no
\* state; the call at line 86 raises, Django answers 500, and the rest of the
\* handler (create_call_record onwards) is not reached.
call_invite(r, group_id, caller_id, receiver_id) ==
    /\ CanStart(r)
    /\ LET q == Started("invite", 0, FALSE)
           channel_name == generate_channel_name(<<group_id, caller_id, receiver_id>>)
       IN req' =
             IF group_id = "" \/ caller_id = "" \/ receiver_id = ""
             THEN Ends(r, q, Resp("missing_fields"))
             ELSE IF ~dbAvailable THEN Ends(r, q, Resp("firestore_unavailable"))
             ELSE IF channel_name.raised THEN Ends(r, q, Resp("server_error"))
             ELSE [req EXCEPT ![r] = [q EXCEPT !.pc = "create"]]
    /\ UNCHANGED <<dbAvailable, now, calls, timers, table, pushLog, lastPush>>

AnswerActions == {"accept", "decline", "other"}

\* call_answer, calls.py:175-200: validate, read, decide on the copy read.
call_answer(r, c, action) ==
    /\ CanStart(r)
    /\ \E fault \in Faults :
         LET q == Started("answer", c, fault)
             call_record == get_call_record(c, fault)
         IN req' =
               IF action \notin {"accept", "decline"} THEN Ends(r, q, Resp("invalid_action"))
               ELSE IF call_record = None THEN Ends(r, q, Resp("call_not_found"))
               ELSE IF Val(call_record).status # "pending"
               THEN Ends(r, q, Conflict("call_not_pending", Val(call_record).status))
               ELSE IF action = "accept"
               THEN ToUpdate(r, q, "accepted", "answeredAt", None)
               ELSE ToUpdate(r, q, "declined", "endedAt", None)
    /\ UNCHANGED <<dbAvailable, now, calls, timers, table, pushLog, lastPush>>

\* call_cancel without the status check of lines 245-249.
call_cancel_unchecked(r, c) ==
    /\ CanStart(r)
    /\ \E fault \in Faults :
         LET q == Started("cancel", c, fault)
             call_record == get_call_record(c, fault)
         IN req' =
               IF call_record = None THEN Ends(r, q, Resp("call_not_found"))
               ELSE ToUpdate(r, q, "cancelled", "endedAt", None)
    /\ UNCHANGED <<dbAvailable, now, calls, timers, table, pushLog, lastPush>>

\* call_cancel, calls.py:235-251
call_cancel(r, c) ==
    /\ CanStart(r)
    /\ \E fault \in Faults :
         LET q == Started("cancel", c, fault)
             call_record == get_call_record(c, fault)
         IN req' =
               IF call_record = None THEN Ends(r, q, Resp("call_not_found"))
               ELSE IF Val(call_record).status # "pending"
               THEN Ends(r, q, Conflict("call_not_pending", Val(call_record).status))
               ELSE ToUpdate(r, q, "cancelled", "endedAt", None)
    /\ UNCHANGED <<dbAvailable, now, calls, timers, table, pushLog, lastPush>>

\* call_missed without the status check of lines 302-306.
call_missed_unchecked(r, c) ==
    /\ CanStart(r)
    /\ \E fault \in Faults :
         LET q == Started("missed", c, fault)
             call_record == get_call_record(c, fault)
         IN req' =
               IF call_record = None THEN Ends(r, q, Resp("call_not_found"))
               ELSE ToUpdate(r, q, "missed", "endedAt", None)
    /\ UNCHANGED <<dbAvailable, now, calls, timers, table, pushLog, lastPush>>

\* call_missed, calls.py:294-308
call_missed(r, c) ==
    /\ CanStart(r)
    /\ \E fault \in Faults :
         LET q == Started("missed", c, fault)
             call_record == get_call_record(c, fault)
         IN req' =
               IF call_record = None THEN Ends(r, q, Resp("call_not_found"))
               ELSE IF Val(call_record).status # "pending"
               THEN Ends(r, q, Conflict("call_not_pending", Val(call_record).status))
               ELSE ToUpdate(r, q, "missed", "endedAt", None)
    /\ UNCHANGED <<dbAvailable, now, calls, timers, table, pushLog, lastPush>>

\* call_end's duration, calls.py:381-388: ended_at is datetime.utcnow(), the
\* base is normalize_datetime(answeredAt) or normalize_datetime(createdAt).
\* [raised, val]: val is None when there is no base.
EndDuration(call_record, ended_at) ==
    LET answered_at == normalize_datetime(FromStore(call_record.answeredAt))
        created_at == normalize_datetime(FromStore(call_record.createdAt))
        duration_base == IF answered_at # None THEN answered_at ELSE created_at
    IN IF duration_base = None THEN [raised |-> FALSE, val |-> None]
       ELSE LET d == DurationSeconds(ended_at, Val(duration_base))
            IN [raised |-> d.raised, val |-> Some(d.val)]

\* call_end, calls.py:365-395.  An exception raised while the duration is
\* computed is not caught: Django answers 500.
call_end(r, c) ==
    /\ CanStart(r)
    /\ \E fault \in Faults :
         LET q == Started("end", c, fault)
             call_record == get_call_record(c, fault)
         IN req' =
               IF call_record = None THEN Ends(r, q, Resp("call_not_found"))
               ELSE IF Val(call_record).status # "accepted"
               THEN Ends(r, q, Conflict("call_not_active", Val(call_record).status))
               ELSE LET duration == EndDuration(Val(call_record), utcnow(now))
                    IN IF duration.raised
                       THEN Ends(r, q, Resp("server_error"))
                       ELSE ToUpdate(r, [q EXCEPT !.arg = duration.val, !.t0 = now],
                                     "ended", "endedAt",
                                     IF duration.val # None THEN duration.val ELSE Some(0))
    /\ UNCHANGED <<dbAvailable, now, calls, timers, table, pushLog, lastPush>>

\* call_status's format_timestamp: None stays None, a datetime becomes its
\* isoformat() text, which names the instant and the UTC offset.
format_timestamp(ts) ==
    IF ts = None THEN None ELSE Some([iso |-> Val(ts).t, offset |-> Val(ts).aware])

\* The JSON of call_status for a record read from the store (the review
\* fields, which no handler writes, are left out).
StatusJson(call_record) ==
    [callId |-> call_record.callId, channelName |-> call_record.channelName,
     groupId |-> call_record.groupId, receiverId |-> call_record.receiverId,
     caregiverUserId |-> call_record.caregiverUserId,
     groupNameSnapshot |-> call_record.groupNameSnapshot,
     giverNameSnapshot |-> call_record.giverNameSnapshot,
     receiverNameSnapshot |-> call_record.receiverNameSnapshot,
     status |-> call_record.status,
     createdAt |-> format_timestamp(FromStore(call_record.createdAt)),
     answeredAt |-> format_timestamp(FromStore(call_record.answeredAt)),
     endedAt |-> format_timestamp(FromStore(call_record.endedAt)),
     durationSec |-> call_record.durationSec]

\* A call_status that also closes a pending call older than the clock's
\* present instant before answering.
call_status_expiring(r, c) ==
    /\ CanStart(r)
    /\ \E fault \in Faults :
         LET q == Started("status", c, fault)
             call_record == get_call_record(c, fault)
         IN IF call_record = None
            THEN /\ req' = Ends(r, q, Resp("call_not_found"))
                 /\ calls' = calls
            ELSE LET doc == IF /\ Val(call_record).status = "pending"
                               /\ Val(Val(call_record).createdAt) < now
                            THEN UpdatedDoc(Val(call_record), "missed", "endedAt",
                                            timezone_now(now), None)
                            ELSE Val(call_record)
                 IN /\ calls' = [calls EXCEPT ![c] = doc]
                    /\ req' = Ends(r, q, [Success(doc.status)
                                            EXCEPT !.record = Some(StatusJson(doc))])
    /\ UNCHANGED <<dbAvailable, now, timers, table, pushLog, lastPush>>

\* call_status (GET call/status/<call_id>): one read, then 404
\* call_not_found or the record's fields.
call_status(r, c) ==
    /\ CanStart(r)
    /\ \E fault \in Faults :
         LET q == Started("status", c, fault)
             call_record == get_call_record(c, fault)
         IN req' =
               IF call_record = None THEN Ends(r, q, Resp("call_not_found"))
               ELSE Ends(r, q, [Success(Val(call_record).status)
                                  EXCEPT !.record = Some(StatusJson(Val(call_record)))])
    /\ UNCHANGED <<dbAvailable, now, calls, timers, table, pushLog, lastPush>>

\* The endedAt/answeredAt the handler passes: datetime.utcnow() taken as the
\* call is made; call_end passes the ended_at it took when it read.
WriteTime(q) == IF q.op = "end" THEN q.t0 ELSE now

\* What can happen inside update_call_status's try (firebase_service.py:
\* 348-369): all goes well; the first get() or update() raises; or update()
\* goes through and the get() that re-reads the document raises.
UpdateOutcomes == {"ok", "raised", "raised_after_write"}

\* FirestoreService.update_call_status as the handlers call it: the document
\* is written whatever status it holds now.  None (here: the 500 response)
\* when the document is missing or a call in the try raises, also when the
\* one that raises comes after the write.
update_call_status(r) ==
    /\ req[r].pc = "update"
    /\ \E outcome \in UpdateOutcomes :
         LET q == req[r]
             t == WriteTime(q)
             failed == Ends(r, [q EXCEPT !.fault = TRUE], Resp("failed_to_update_status"))
         IN
         IF outcome = "raised" \/ ~calls[q.cid].exists
         THEN /\ req' = failed
              /\ calls' = calls
         ELSE /\ calls' = [calls EXCEPT ![q.cid] =
                              UpdatedDoc(@, q.newStatus, q.key, utcnow(t), q.dur)]
              /\ req' = IF outcome = "ok" THEN [req EXCEPT ![r].pc = "finish"] ELSE failed
    /\ UNCHANGED <<dbAvailable, now, timers, table, pushLog, lastPush>>

\* The response of a handler whose update went through.
FinalResponse(q) ==
    IF q.op = "end" THEN [Success("ended") EXCEPT !.duration = q.arg]
    ELSE Success(q.newStatus)

\* The rest of call_answer (209-216), call_missed (312-318), call_end
\* (402-408): _cancel_missed_timeout, then the success response.
finish(r) ==
    /\ req[r].pc = "finish"
    /\ req[r].op \in {"answer", "missed", "end"}
    /\ table' = TableAfterCancel(req[r].cid)
    /\ timers' = TimersAfterCancel(req[r].cid)
    /\ req' = Ends(r, req[r], FinalResponse(req[r]))
    /\ UNCHANGED <<dbAvailable, now, calls, pushLog, lastPush>>

\* What call_cancel's push does (calls.py:257-267), over every lookup
\* result and every gateway answer.  sent: a request goes out to a gateway,
\* only when the user document exists and names a platform with its token.
\* raised: send_call_cancelled_push raises; run_async and call_cancel do not
\* catch, and Django answers 500.
CancelPushOutcomes ==
    {LET result == send_call_cancelled_push(user_tokens.platform, user_tokens.fcmToken,
                                            user_tokens.voipToken, g)
         called == user_tokens.ok /\ user_tokens.exists
     IN [raised |-> called /\ result.error_code = "raised",
         sent |-> called /\ NetworkCall(PushTarget(user_tokens.platform,
                                                   user_tokens.fcmToken,
                                                   user_tokens.voipToken),
                                        result.error_code)]
       : user_tokens \in UserLookups, g \in ApnsAnswers \cup FcmAnswers}

\* The rest of call_cancel (256-277): look the receiver up, send the
\* call_cancelled push when the user exists, drop its result,
\* _cancel_missed_timeout, success.  When the push raises the handler ends
\* there: no _cancel_missed_timeout, response 500.
finish_cancel(r) ==
    /\ req[r].pc = "finish"
    /\ req[r].op = "cancel"
    /\ \E o \in CancelPushOutcomes :
         IF o.raised
         THEN /\ req' = Ends(r, req[r], Resp("server_error"))
              /\ UNCHANGED <<table, timers, pushLog>>
         ELSE /\ pushLog' = IF o.sent THEN [pushLog EXCEPT ![req[r].cid].cancelled = @ + 1]
                            ELSE pushLog
              /\ table' = TableAfterCancel(req[r].cid)
              /\ timers' = TimersAfterCancel(req[r].cid)
              /\ req' = Ends(r, req[r], FinalResponse(req[r]))
    /\ UNCHANGED <<dbAvailable, now, calls, lastPush>>

\* ------------------------------------------------------------- scheduler
\* _cancel_missed_timeout(call_id), called on any call id.
_cancel_missed_timeout(c) ==
    /\ table' = TableAfterCancel(c)
    /\ timers' = TimersAfterCancel(c)
    /\ UNCHANGED <<dbAvailable, now, calls, req, pushLog, lastPush>>

\* _schedule_missed_timeout(call_id, timeout_seconds), one step under
\* _missed_timers_lock: cancel the timer in the table, install and start a
\* new one.  Callers arm a call while it waits for an answer.
_schedule_missed_timeout(c, timeout_seconds) ==
    /\ calls[c].exists /\ calls[c].status = "pending"
    /\ now + timeout_seconds <= MaxTime
    /\ \E t \in TimerIds :
         /\ timers[t].state = "unused"
         /\ IF t = 1 THEN TRUE ELSE timers[t - 1].state # "unused"
         /\ timers' = [TimersAfterCancel(c) EXCEPT
                          ![t] = [state |-> "waiting", cid |-> c,
                                  remaining |-> timeout_seconds, fault |-> FALSE]]
         /\ table' = [table EXCEPT ![c] = t]
    /\ UNCHANGED <<dbAvailable, now, calls, req, pushLog, lastPush>>

\* _timeout_handler with the test of line 25 left out: it goes on to its
\* finally without writing.
timeout_handler_read_return(t) ==
    /\ timers[t].state = "waiting"
    /\ timers[t].remaining = 0
    /\ \E fault \in Faults :
         timers' = [timers EXCEPT ![t].state = "pop", ![t].fault = fault]
    /\ UNCHANGED <<dbAvailable, now, calls, req, table, pushLog, lastPush>>

\* The timer fires: _timeout_handler reads the record (calls.py:24-26).
timeout_handler_read(t) ==
    /\ timers[t].state = "waiting"
    /\ timers[t].remaining = 0
    /\ \E fault \in Faults :
         LET call_record == get_call_record(timers[t].cid, fault) IN
         timers' = [timers EXCEPT ![t].state =
                                      IF call_record = None \/ Val(call_record).status # "pending"
                                      THEN "pop" ELSE "write",
                                  ![t].fault = fault]
    /\ UNCHANGED <<dbAvailable, now, calls, req, table, pushLog, lastPush>>

\* _timeout_handler, calls.py:27: update_call_status(call_id, "missed", ...).
timeout_handler_write(t) ==
    /\ timers[t].state = "write"
    /\ \E fault \in BOOLEAN :
         /\ calls' = IF fault \/ ~calls[timers[t].cid].exists THEN calls
                     ELSE [calls EXCEPT ![timers[t].cid] =
                              UpdatedDoc(@, "missed", "endedAt", utcnow(now), None)]
         /\ timers' = [timers EXCEPT ![t].state = "pop", ![t].fault = fault]
    /\ UNCHANGED <<dbAvailable, now, req, table, pushLog, lastPush>>

\* _timeout_handler's finally, calls.py:29-30: pop the table's entry for the
\* call id, whichever timer it holds.
timeout_handler_pop(t) ==
    /\ timers[t].state = "pop"
    /\ table' = [table EXCEPT ![timers[t].cid] = 0]
    /\ timers' = [timers EXCEPT ![t].state = "done"]
    /\ UNCHANGED <<dbAvailable, now, calls, req, pushLog, lastPush>>

\* ------------------------------------------------------------- sweep
\* The query with createdAt < cutoff.
ExpiredPending_strict(cutoff) ==
    {c \in CallIds : /\ calls[c].exists
                     /\ calls[c].status = "pending"
                     /\ Val(calls[c].createdAt) < ToStore(cutoff)}

\* The query of mark_missed_expired: status == pending, createdAt <= cutoff.
ExpiredPending(cutoff) ==
    {c \in CallIds : /\ calls[c].exists
                     /\ calls[c].status = "pending"
                     /\ Val(calls[c].createdAt) <= ToStore(cutoff)}

\* datetime.utcnow() - timedelta(seconds=timeout_seconds)
Cutoff(timeout_seconds) == utcnow(now - timeout_seconds)

\* call_timeout_sweep's answer: timeoutSeconds and updatedCount.
SweepResponse(q, updated_count) ==
    [Success("-") EXCEPT !.timeout = Val(q.arg), !.count = updated_count]

\* call_timeout_sweep up to the query of mark_missed_expired
\* (calls.py:335-342, firebase_service.py:403-414).
call_timeout_sweep(r, timeout_seconds, is_int) ==
    /\ CanStart(r)
    /\ \E fault \in Faults :
         LET q == [Started("sweep", 0, fault) EXCEPT !.arg = Some(timeout_seconds)]
             docs == ExpiredPending(Cutoff(timeout_seconds))
         IN req' =
               IF ~is_int THEN Ends(r, q, Resp("invalid_timeout_seconds"))
               ELSE IF ~dbAvailable \/ fault \/ docs = {}
               THEN Ends(r, q, SweepResponse(q, 0))
               ELSE [req EXCEPT ![r] = [q EXCEPT !.pc = "commit", !.sel = docs]]
    /\ UNCHANGED <<dbAvailable, now, calls, timers, table, pushLog, lastPush>>

\* mark_missed_expired without batch.commit(): the updates are queued and
\* counted, never sent.
mark_missed_commit_unsent(r) ==
    /\ req[r].pc = "commit"
    /\ req' = Ends(r, req[r], SweepResponse(req[r], Cardinality(req[r].sel)))
    /\ UNCHANGED <<dbAvailable, now, calls, timers, table, pushLog, lastPush>>

\* mark_missed_expired with one update() per document in place of the batch:
\* the documents the store accepts are written and counted.
mark_missed_commit_independent(r) ==
    /\ req[r].pc = "commit"
    /\ \E refused \in SUBSET req[r].sel :
         /\ calls' = [c \in CallIds |->
                        IF c \in req[r].sel \ refused
                        THEN UpdatedDoc(calls[c], "missed", "endedAt",
                                        timezone_now(now), None)
                        ELSE calls[c]]
         /\ req' = [Ends(r, [req[r] EXCEPT !.fault = refused # {}],
                         SweepResponse(req[r], Cardinality(req[r].sel \ refused)))
                      EXCEPT ![r].sel = refused]
    /\ UNCHANGED <<dbAvailable, now, timers, table, pushLog, lastPush>>

\* The batch of mark_missed_expired (firebase_service.py:416-423): the
\* updates of all the documents the query returned go to the store in one
\* WriteBatch, and len(docs) is returned.  refused: the documents whose update
\* the store does not accept; when there is one, commit() raises, nothing is
\* written and the count is 0.  A finished sweep keeps refused in sel.
mark_missed_commit(r) ==
    /\ req[r].pc = "commit"
    /\ \E refused \in SUBSET req[r].sel :
         IF refused # {}
         THEN /\ calls' = calls
              /\ req' = [Ends(r, [req[r] EXCEPT !.fault = TRUE], SweepResponse(req[r], 0))
                           EXCEPT ![r].sel = refused]
         ELSE /\ calls' = [c \in CallIds |->
                             IF c \in req[r].sel
                             THEN UpdatedDoc(calls[c], "missed", "endedAt",
                                             timezone_now(now), None)
                             ELSE calls[c]]
              /\ req' = Ends(r, req[r], SweepResponse(req[r], Cardinality(req[r].sel)))
    /\ UNCHANGED <<dbAvailable, now, timers, table, pushLog, lastPush>>

\* ------------------------------------------------------------- reservation
\* _txn of reserve_push_send (firebase_service.py:293-304), up to its write:
\* the snapshot read and the two early returns.
TxnRead(r, q0, fault) ==
    LET snapshot == calls[q0.cid]
        q == [q0 EXCEPT !.attempt = @ + 1]
    IN
    IF ~dbAvailable \/ fault THEN Ends(r, [q EXCEPT !.fault = fault], Resp("error"))
    ELSE IF ~snapshot.exists THEN Ends(r, q, Resp("error"))
    ELSE IF snapshot.pushSent THEN Ends(r, q, Resp("already_reserved"))
    ELSE [req EXCEPT ![r] = [q EXCEPT !.pc = "txn_commit", !.readVer = snapshot.ver]]

\* reserve_push_send: the transaction's first attempt.
reserve_push_send(r, c) ==
    /\ CanStart(r)
    /\ \E fault \in Faults : req' = TxnRead(r, Started("reserve", c, FALSE), fault)
    /\ UNCHANGED <<dbAvailable, now, calls, timers, table, pushLog, lastPush>>

\* A plain update in place of the transaction: the commit always goes through.
TxnValid_unchecked(doc, readVer) == TRUE

\* @firestore.transactional: the commit goes through only if the document
\* was not written since the transaction read it.
TxnValid(doc, readVer) == doc.ver = readVer

\* A commit that also stamps updatedAt, as update_push_status does.
txn_commit_stamped(r) ==
    /\ req[r].pc = "txn_commit"
    /\ \E fault \in BOOLEAN :
         LET q == req[r] IN
         IF fault
         THEN /\ calls' = calls
              /\ req' = Ends(r, [q EXCEPT !.fault = TRUE], Resp("error"))
         ELSE IF TxnValid(calls[q.cid], q.readVer)
         THEN /\ calls' = [calls EXCEPT ![q.cid].pushSent = TRUE,
                                        ![q.cid].pushReservedAt = Some(ToStore(timezone_now(now))),
                                        ![q.cid].updatedAt = Some(ToStore(timezone_now(now))),
                                        ![q.cid].ver = @ + 1]
              /\ req' = Ends(r, q, Resp("reserved_now"))
         ELSE /\ calls' = calls
              /\ req' = [req EXCEPT ![r].pc = "txn_retry"]
    /\ UNCHANGED <<dbAvailable, now, timers, table, pushLog, lastPush>>

\* The transaction's commit: write pushSent and pushReservedAt, or start over.
txn_commit(r) ==
    /\ req[r].pc = "txn_commit"
    /\ \E fault \in BOOLEAN :
         LET q == req[r] IN
         IF fault
         THEN /\ calls' = calls
              /\ req' = Ends(r, [q EXCEPT !.fault = TRUE], Resp("error"))
         ELSE IF TxnValid(calls[q.cid], q.readVer)
         THEN /\ calls' = [calls EXCEPT ![q.cid].pushSent = TRUE,
                                        ![q.cid].pushReservedAt = Some(ToStore(timezone_now(now))),
                                        ![q.cid].ver = @ + 1]
              /\ req' = Ends(r, q, Resp("reserved_now"))
         ELSE /\ calls' = calls
              /\ req' = [req EXCEPT ![r].pc = "txn_retry"]
    /\ UNCHANGED <<dbAvailable, now, timers, table, pushLog, lastPush>>

\* A commit that lost runs _txn again.
txn_retry(r) ==
    /\ req[r].pc = "txn_retry"
    /\ \E fault \in Faults : req' = TxnRead(r, req[r], fault)
    /\ UNCHANGED <<dbAvailable, now, calls, timers, table, pushLog, lastPush>>

\* FirestoreService.update_push_status: one unconditional update of pushSent,
\* pushPlatform and updatedAt.  Without a client, or when update() raises
\* (also: no such document), it returns False and nothing is written.
\* pushLog counts the calls.
PushPlatformArgs == {"", "ios"}

PushUpdatesDone ==
    LET Sum[n \in 0..MaxCalls] == IF n = 0 THEN 0 ELSE pushLog[n].updates + Sum[n - 1]
    IN Sum[MaxCalls]

update_push_status(c, push_sent, push_platform) ==
    /\ PushUpdatesDone < MaxPushUpdates
    /\ pushLog' = [pushLog EXCEPT ![c].updates = @ + 1]
    /\ \E fault \in Faults :
         IF ~dbAvailable \/ fault \/ ~calls[c].exists
         THEN calls' = calls
         ELSE calls' = [calls EXCEPT ![c].pushSent = push_sent,
                                     ![c].pushPlatform = push_platform,
                                     ![c].updatedAt = Some(ToStore(timezone_now(now))),
                                     ![c].ver = @ + 1]
    /\ UNCHANGED <<dbAvailable, now, req, timers, table, lastPush>>

\* ------------------------------------------------------------- dispatcher
\* A caller sends the incoming-call push of an existing call:
\* push_service.send_incoming_call_push, with the gateway's answer (or the
\* result "raised" when the call raises).
IncomingOutcomes ==
    {[result |-> send_incoming_call_push(p, f, v, g),
      sent |-> NetworkCall(PushTarget(p, f, v),
                           send_incoming_call_push(p, f, v, g).error_code)]
       : p \in Platforms, f \in Tokens, v \in Tokens, g \in ApnsAnswers \cup FcmAnswers}

incoming_call_push(c) ==
    /\ calls[c].exists
    /\ pushLog[c].sends < MaxDispatch
    /\ \E o \in IncomingOutcomes :
         /\ lastPush' = o.result
         /\ pushLog' = [pushLog EXCEPT ![c].sends = @ + 1,
                                       ![c].incoming = IF o.sent THEN @ + 1 ELSE @]
    /\ UNCHANGED <<dbAvailable, now, calls, req, timers, table>>

\* ------------------------------------------------------------- behaviours
Requests ==
    \E r \in Reqs :
       \/ \E g \in InviteIds, ca \in InviteIds, rc \in InviteIds : call_invite(r, g, ca, rc)
       \/ \E c \in CallIds, a \in AnswerActions : call_answer(r, c, a)
       \/ \E c \in CallIds : call_cancel(r, c)
       \/ \E c \in CallIds : call_missed(r, c)
       \/ \E c \in CallIds : call_end(r, c)
       \/ \E ts \in 0..MaxSweepTimeout, is_int \in BOOLEAN : call_timeout_sweep(r, ts, is_int)
       \/ update_call_status(r)
       \/ finish(r)
       \/ finish_cancel(r)
       \/ mark_missed_commit(r)

Scheduler ==
    \/ \E c \in CallIds, d \in 0..MaxDelay : _schedule_missed_timeout(c, d)
    \/ \E t \in TimerIds : timeout_handler_read(t)
    \/ \E t \in TimerIds : timeout_handler_write(t)
    \/ \E t \in TimerIds : timeout_handler_pop(t)

Reservations ==
    \E r \in Reqs :
       \/ \E c \in CallIds : reserve_push_send(r, c)
       \/ txn_commit(r)
       \/ txn_retry(r)

Disarms == \E c \in CallIds : _cancel_missed_timeout(c)

\* The Timer objects created so far.
TimersUsed == Cardinality({t \in TimerIds : timers[t].state # "unused"})

Creates == \E c \in CallIds : create_call_record(c)

Dispatches == \E c \in CallIds : incoming_call_push(c)

\* The handlers of api/urls.py, the timers they leave behind, and the calls
\* that create the records and arm the timers.
Next == Tick \/ Creates \/ Requests \/ (Scheduler /\ TimersUsed' <= MaxTimers)

Spec == Init /\ [][Next]_vars

\* The push side on its own: records, reservations, incoming-call sends.
NextPush == Tick \/ Creates \/ Reservations \/ Dispatches

SpecPush == Init /\ [][NextPush]_vars

PushUpdates ==
    \E c \in CallIds, push_sent \in BOOLEAN, push_platform \in PushPlatformArgs :
       update_push_status(c, push_sent, push_platform)

\* The record's push fields: reservations and update_push_status calls.
NextPushStatus == Tick \/ Creates \/ Reservations \/ PushUpdates

SpecPushStatus == Init /\ [][NextPushStatus]_vars

StatusRequests ==
    \E r \in Reqs :
       \/ \E c \in CallIds : call_status(r, c)
       \/ \E c \in CallIds, a \in AnswerActions : call_answer(r, c, a)
       \/ update_call_status(r)
       \/ finish(r)

\* Reads of the status next to the answers and timers that change it.
NextStatus ==
    Tick \/ Creates \/ StatusRequests \/ (Scheduler /\ TimersUsed' <= MaxTimers)

SpecStatus == Init /\ [][NextStatus]_vars

\* The scheduler on its own: calls are created, armed, re-armed and disarmed,
\* and the timers run.
NextTimers == Tick \/ Creates \/ Scheduler \/ Disarms

SpecTimers == Init /\ [][NextTimers]_vars

\* The process keeps running: the clock advances, a timer that is due runs its
\* handler on its own thread, and the handler runs to its end.
TimersFairness ==
    /\ WF_vars(Tick)
    /\ \A t \in TimerIds :
          /\ WF_vars(timeout_handler_read(t))
          /\ WF_vars(timeout_handler_write(t))
          /\ WF_vars(timeout_handler_pop(t))

SpecTimersFair == SpecTimers /\ TimersFairness

\* The process exits and starts again: _missed_timers and its Timer threads
\* (module state, calls.py:17-18) are gone, and so are the requests in
\* progress.  The store keeps its documents.
Restart ==
    /\ TimersUsed > 0 \/ \E r \in Reqs : req[r].pc # "idle"
    /\ timers' = [t \in TimerIds |-> IdleTimer]
    /\ table' = [c \in CallIds |-> 0]
    /\ req' = [r \in Reqs |-> IdleReq]
    /\ UNCHANGED <<dbAvailable, now, calls, pushLog, lastPush>>

\* The external trigger posts call/timeout/sweep again once the last sweep
\* has been answered.
sweep_again(r) ==
    /\ req[r].pc = "done"
    /\ req[r].op = "sweep"
    /\ req' = [req EXCEPT ![r] = IdleReq]
    /\ UNCHANGED <<dbAvailable, now, calls, timers, table, pushLog, lastPush>>

\* The trigger posts one sweep at a time: its requests share the first slot.
Sweeps ==
    \E r \in {1} :
       \/ \E ts \in 0..MaxSweepTimeout, is_int \in BOOLEAN : call_timeout_sweep(r, ts, is_int)
       \/ mark_missed_commit(r)
       \/ sweep_again(r)

\* A sweep request with a well-formed timeout_seconds whose query the store
\* answers, and a batch the store commits.
sweep_answered(r) ==
    /\ \E ts \in 0..MaxSweepTimeout : call_timeout_sweep(r, ts, TRUE)
    /\ ~req'[r].fault
commit_answered(r) == mark_missed_commit(r) /\ ~req'[r].fault

\* Calls, their timers, restarts that lose the timers, and sweep posted again
\* and again.
NextSweep ==
    Tick \/ Creates \/ (Scheduler /\ TimersUsed' <= MaxTimers) \/ Restart \/ Sweeps

\* Sweep keeps being invoked and the store keeps answering it; nothing is
\* assumed of the timers.
SweepFairness ==
    /\ WF_vars(Tick)
    /\ \A r \in {1} :
          /\ WF_vars(sweep_again(r))
          /\ SF_vars(sweep_answered(r))
          /\ SF_vars(commit_answered(r))

SpecSweepFair == Init /\ [][NextSweep]_vars /\ SweepFairness

\* ============================================================= claims
\* Request r starts handler op in this step.
Starts(r, op) == req[r].pc = "idle" /\ req'[r].op = op

\* Request r, reading an existing record without a store fault.
ReadsRecord(r) ==
    /\ ~req'[r].fault
    /\ req'[r].cid \in CallIds
    /\ calls[req'[r].cid].exists

\* The step rejects request r with a Conflict naming the status stored, and
\* changes neither the store nor the timers.
Rejected(r, kind) ==
    /\ req'[r].pc = "done"
    /\ req'[r].resp = Conflict(kind, calls[req'[r].cid].status)
    /\ calls' = calls
    /\ timers' = timers
    /\ table' = table

LegalEdges ==
    {<<"pending", "accepted">>, <<"pending", "declined">>, <<"pending", "cancelled">>,
     <<"pending", "missed">>, <<"accepted", "ended">>}

\* C1: under any interleaving, every change of a record's status is one of
\* pending->accepted, pending->declined, pending->cancelled, pending->missed,
\* accepted->ended; a terminal status never changes again.
C1_StatusFollowsGraph ==
    [][\A c \in CallIds :
          (calls[c].exists /\ calls'[c].status # calls[c].status)
             => <<calls[c].status, calls'[c].status>> \in LegalEdges]_vars

\* The finished reserve_push_send calls on c with the given outcome.
Outcome(c, kind) ==
    {r \in Reqs : /\ req[r].pc = "done" /\ req[r].op = "reserve"
                  /\ req[r].cid = c /\ req[r].resp.kind = kind}

\* C2: of the reserve_push_send calls racing on an existing record whose
\* pushSent is false, exactly one returns reserved-now, every other one
\* returns already-reserved (none returns an error unless the store raised),
\* and pushSent is true afterwards.
C2_ReserveExactlyOnce ==
    /\ [](\A c \in CallIds :
            /\ Cardinality(Outcome(c, "reserved_now")) <= 1
            /\ Outcome(c, "reserved_now") \cup Outcome(c, "already_reserved") # {}
                 => /\ calls[c].pushSent
                    /\ Cardinality(Outcome(c, "reserved_now")) = 1)
    /\ [][\A r \in Reqs :
            (/\ req[r].pc # "done" /\ req'[r].pc = "done" /\ req'[r].op = "reserve"
             /\ ReadsRecord(r))
               => req'[r].resp.kind \in {"reserved_now", "already_reserved"}]_vars

\* C2 witness: two calls raced on one record; the loser's first commit was
\* refused and its second attempt found the reservation.
C2_Witness ==
    \E c \in CallIds, r \in Reqs :
       /\ Cardinality(Outcome(c, "reserved_now")) = 1
       /\ r \in Outcome(c, "already_reserved")
       /\ req[r].attempt = 2
       /\ calls[c].pushSent

\* C3: every send of the incoming-call push of a call is preceded by a
\* reserve_push_send of that call that returned reserved-now, so there is at
\* most one such send per call.
C3_DispatchAfterReservation ==
    \A c \in CallIds :
       /\ pushLog[c].sends > 0 => Outcome(c, "reserved_now") # {}
       /\ pushLog[c].sends <= 1

\* C4: an invite that passes validation with the store available answers
\* success, reports a failed delivery ("Token unregistered") as pushError,
\* and leaves the call's pushSent true.
C4_InviteReservesBeforeDispatch ==
    \A r \in Reqs :
       (/\ req[r].pc = "done" /\ req[r].op = "invite"
        /\ req[r].resp.kind \notin {"missing_fields", "firestore_unavailable"})
          => /\ req[r].resp.kind = "success"
             /\ req[r].cid \in CallIds
             /\ calls[req[r].cid].pushSent
             /\ lastPush.error_code = "UNREGISTERED"
                  => req[r].resp.pushError = "Token unregistered"

C6_AcceptThenConflict ==
    [][\A r \in Reqs :
          /\ (/\ Starts(r, "answer") /\ ReadsRecord(r)
              /\ req'[r].resp.kind # "invalid_action"
              /\ calls[req'[r].cid].status = "pending")
                => req'[r].pc = "update"
          /\ (/\ req[r].pc = "update" /\ req[r].newStatus = "accepted"
              /\ req'[r].pc = "finish")
                => /\ calls'[req[r].cid].status = "accepted"
                   /\ calls'[req[r].cid].answeredAt = Some(now)
                   /\ now >= Val(calls'[req[r].cid].createdAt)
          /\ (/\ req[r].pc = "finish" /\ req[r].newStatus = "accepted"
              /\ req'[r].pc = "done")
                => req'[r].resp = Success("accepted") /\ calls' = calls
          /\ (/\ Starts(r, "answer") /\ ReadsRecord(r)
              /\ req'[r].resp.kind # "invalid_action"
              /\ calls[req'[r].cid].status = "accepted")
                => /\ req'[r].pc = "done"
                   /\ req'[r].resp = Conflict("call_not_pending", "accepted")]_vars

\* C6 witness: an accept succeeded and its repetition was refused.
C6_Witness ==
    \E r1 \in Reqs, r2 \in Reqs :
       /\ req[r1].pc = "done" /\ req[r1].op = "answer"
       /\ req[r1].resp = Success("accepted")
       /\ req[r2].pc = "done" /\ req[r2].op = "answer" /\ req[r2].cid = req[r1].cid
       /\ req[r2].resp = Conflict("call_not_pending", "accepted")
       /\ calls[req[r1].cid].answeredAt # None
       /\ Val(calls[req[r1].cid].answeredAt) > Val(calls[req[r1].cid].createdAt)

\* C7: answer or cancel on a call that is not pending, and end on a call that
\* is not accepted, answer Conflict with the status stored and leave the
\* record and the timer table unchanged.
C7_IllegalTransitionRejected ==
    [][\A r \in Reqs :
          /\ (/\ Starts(r, "answer") /\ ReadsRecord(r)
              /\ req'[r].resp.kind # "invalid_action"
              /\ calls[req'[r].cid].status # "pending")
                => Rejected(r, "call_not_pending")
          /\ (/\ Starts(r, "cancel") /\ ReadsRecord(r)
              /\ calls[req'[r].cid].status # "pending")
                => Rejected(r, "call_not_pending")
          /\ (/\ Starts(r, "end") /\ ReadsRecord(r)
              /\ calls[req'[r].cid].status # "accepted")
                => Rejected(r, "call_not_active")]_vars

\* C7 witness: a cancel and an end were both refused on a call that had
\* already been marked missed.
C7_Witness ==
    \E r1 \in Reqs, r2 \in Reqs :
       /\ req[r1].pc = "done" /\ req[r1].op = "cancel"
       /\ req[r1].resp = Conflict("call_not_pending", "missed")
       /\ req[r2].pc = "done" /\ req[r2].op = "end"
       /\ req[r2].resp = Conflict("call_not_active", "missed")

\* C8: of the answer, cancel and markMissed requests racing on one pending
\* call at most one answers success.
C8_AtMostOneWinner ==
    \A c \in CallIds :
       Cardinality({r \in Reqs : /\ req[r].pc = "done"
                                 /\ req[r].op \in {"answer", "cancel", "missed"}
                                 /\ req[r].cid = c
                                 /\ req[r].resp.kind = "success"}) <= 1

\* C9: end on an accepted call answers success; the record is then ended,
\* with durationSec = endedAt - answeredAt (from createdAt when answeredAt
\* is absent).
C9_EndSetsDuration ==
    \A r \in Reqs :
       (/\ req[r].pc = "done" /\ req[r].op = "end"
        /\ req[r].resp.kind \notin {"call_not_found", "call_not_active",
                                     "failed_to_update_status"})
          => LET doc == calls[req[r].cid]
                 base == IF doc.answeredAt # None THEN doc.answeredAt ELSE doc.createdAt
             IN /\ req[r].resp.kind = "success"
                /\ doc.status = "ended"
                /\ doc.endedAt # None
                /\ doc.durationSec = Some(Val(doc.endedAt) - Val(base))
                /\ req[r].resp.duration = doc.durationSec

\* The timeout_seconds of sweep request r, after its first step.
SweepTimeout(r) ==
    IF req'[r].pc = "done" THEN req'[r].resp.timeout ELSE Val(req'[r].arg)

\* C10: sweep selects exactly the records that are pending with
\* createdAt <= now - timeoutSeconds; its commit sets those to missed with
\* endedAt = now, leaves every other record unchanged, and the count it
\* returns is the number of records it updated.
C10_SweepMarksExpired ==
    [][\A r \in Reqs :
          /\ (/\ Starts(r, "sweep") /\ ~req'[r].fault /\ dbAvailable
              /\ req'[r].resp.kind # "invalid_timeout_seconds")
                => LET stale == {c \in CallIds :
                                   /\ calls[c].exists /\ calls[c].status = "pending"
                                   /\ Val(calls[c].createdAt) <= now - SweepTimeout(r)}
                   IN /\ calls' = calls
                      /\ IF stale = {}
                         THEN /\ req'[r].pc = "done"
                              /\ req'[r].resp.kind = "success"
                              /\ req'[r].resp.count = 0
                         ELSE req'[r].pc = "commit" /\ req'[r].sel = stale
          /\ (req[r].pc = "commit" /\ req'[r].pc = "done" /\ ~req'[r].fault)
                => /\ \A c \in CallIds :
                        calls'[c] = IF c \in req[r].sel
                                    THEN [calls[c] EXCEPT !.status = "missed",
                                                          !.endedAt = Some(now),
                                                          !.ver = @ + 1]
                                    ELSE calls[c]
                   /\ req'[r].resp.kind = "success"
                   /\ req'[r].resp.count = Cardinality(req[r].sel)]_vars

\* C10 witness: sweep(0) found one pending call created earlier, answered
\* updatedCount = 1, and that call is missed; another record was left alone.
C10_Witness ==
    \E r \in Reqs, c \in CallIds, d \in CallIds :
       /\ req[r].pc = "done" /\ req[r].op = "sweep"
       /\ req[r].resp.kind = "success"
       /\ req[r].resp.timeout = 0 /\ req[r].resp.count = 1
       /\ calls[c].status = "missed"
       /\ calls[c].endedAt # None
       /\ Val(calls[c].createdAt) < Val(calls[c].endedAt)
       /\ calls[d].exists /\ calls[d].status = "accepted"

\* C11 as stated: when the update of one stale record fails in sweep, the
\* updates of the other stale records are still applied, and the count
\* returned is the number of records updated.
C11_SweepUpdatesIndependent ==
    [][\A r \in Reqs :
          (req[r].pc = "commit" /\ req'[r].pc = "done")
             => /\ \A c \in req[r].sel \ req'[r].sel :
                     calls'[c].status = "missed" /\ calls'[c].endedAt = Some(now)
                /\ req'[r].resp.count = Cardinality(req[r].sel \ req'[r].sel)]_vars

\* C11 amended: sweep commits its updates as one batch: when the store
\* refuses the update of one stale record, no record is changed by that sweep
\* and the count returned is 0; the count is always the number of records
\* that sweep updated.
C11_SweepBatchAllOrNothing ==
    [][\A r \in Reqs :
          (req[r].pc = "commit" /\ req'[r].pc = "done")
             => LET written == {c \in CallIds : calls'[c] # calls[c]} IN
                /\ req'[r].resp.count = Cardinality(written)
                /\ req'[r].sel # {} => written = {}
                /\ req'[r].sel = {} => written = req[r].sel]_vars

\* C11 witness: a sweep found two stale pending calls, the store refused the
\* update of one, the sweep answered updatedCount = 0 and both are pending.
C11_Witness ==
    \E r \in Reqs :
       /\ req[r].pc = "done" /\ req[r].op = "sweep"
       /\ Cardinality(req[r].sel) = 1
       /\ req[r].resp.count = 0
       /\ \A c \in CallIds :
            /\ calls[c].status = "pending"
            /\ Val(calls[c].createdAt) <= now - req[r].resp.timeout

\* C12: an invite that does not succeed has created no record, armed no
\* timer and sent no push: the step that ends it with an error changes
\* neither the store, the timer table nor the push log, and generates no call
\* id; with the store unavailable a well-formed invite answers
\* firestore_unavailable.
C12_InviteFailsBeforeCreate ==
    [][\A r \in Reqs :
          /\ (/\ req'[r].op = "invite" /\ req[r].pc # "done" /\ req'[r].pc = "done"
              /\ req'[r].resp.kind # "success")
                => /\ calls' = calls /\ timers' = timers /\ table' = table
                   /\ pushLog' = pushLog /\ lastPush' = lastPush
                   /\ req'[r].cid = 0
          /\ (/\ Starts(r, "invite") /\ ~dbAvailable
              /\ req'[r].resp.kind # "missing_fields")
                => req'[r].pc = "done" /\ req'[r].resp.kind = "firestore_unavailable"]_vars

\* C12 witness: a well-formed invite met an unavailable store; there is no
\* record, no timer and no push.
C12_Witness ==
    \E r \in Reqs :
       /\ req[r].pc = "done" /\ req[r].op = "invite"
       /\ req[r].resp.kind = "firestore_unavailable"
       /\ \A c \in CallIds : ~calls[c].exists /\ table[c] = 0 /\ pushLog[c].sends = 0
       /\ \A t \in TimerIds : timers[t].state = "unused"

\* The finished invites that passed validation, found the store available and
\* did not report a failed create_call_record.
CreatedByInvite ==
    {r \in Reqs : /\ req[r].pc = "done" /\ req[r].op = "invite"
                  /\ req[r].resp.kind \notin {"missing_fields", "firestore_unavailable",
                                               "failed_to_create_call_record"}}

\* C13: an invite that got as far as creating its record answers success
\* with its call id, and the record exists, whatever the token lookup and the
\* push returned.
C13_InviteSucceedsAfterCreate ==
    \A r \in CreatedByInvite :
       /\ req[r].resp.kind = "success"
       /\ req[r].cid \in CallIds
       /\ calls[req[r].cid].exists

\* C14: an invite that got as far as creating its record has armed a timer
\* for its call id, and only one.
C14_InviteArmsOneTimer ==
    \A r \in CreatedByInvite :
       /\ req[r].cid \in CallIds
       /\ Cardinality({t \in TimerIds : /\ timers[t].state # "unused"
                                        /\ timers[t].cid = req[r].cid}) = 1

\* No request and no timer handler is at work on call c.
Quiescent(c) ==
    /\ \A r \in Reqs :
          req[r].pc \in {"idle", "done"} \/ (req[r].op # "sweep" /\ req[r].cid # c)
    /\ \A t \in TimerIds :
          timers[t].cid = c => timers[t].state \notin {"write", "pop"}

\* C15: once the operation that moved a call out of pending has completed,
\* the timer table holds no entry for the call.
C15_NoEntryAfterPending ==
    \A c \in CallIds :
       (calls[c].exists /\ calls[c].status # "pending" /\ Quiescent(c)) => table[c] = 0

\* The timers of call c that are started, not fired and not cancelled.
LiveTimers(c) == {t \in TimerIds : timers[t].state = "waiting" /\ timers[t].cid = c}

\* C16: for every call id at most one timer is live at any time.
C16_AtMostOneLiveTimer ==
    \A c \in CallIds : Cardinality(LiveTimers(c)) <= 1

\* The step is a call of _cancel_missed_timeout(c).
DisarmStep(c) ==
    /\ table' = TableAfterCancel(c)
    /\ timers' = TimersAfterCancel(c)
    /\ calls' = calls

\* The table holds no live timer for c: no entry (timer absent, cancelled,
\* or fired and finished) or an entry whose timer has fired.
NoLiveEntry(c) == table[c] = 0 \/ timers[table[c]].state # "waiting"

C19_SweepBackstop ==
    \A c \in CallIds :
       (/\ calls[c].status = "pending"
        /\ Val(calls[c].createdAt) + MaxSweepTimeout <= MaxTime)
          ~> (calls[c].status = "missed")

\* C19 witness: no timer is left in the process, and a sweep has marked a
\* call missed.
C19_Witness ==
    \E r \in Reqs, c \in CallIds :
       /\ req[r].pc = "done" /\ req[r].op = "sweep" /\ req[r].resp.count >= 1
       /\ calls[c].status = "missed"
       /\ \A t \in TimerIds : timers[t].state = "unused"

\* C20: a cancel that found the call pending and whose write went through
\* answers success and leaves no timer entry for the call, whatever the
\* receiver lookup and the call-cancelled push did.
C20_CancelSucceedsWhateverPush ==
    \A r \in Reqs :
       (/\ req[r].pc = "done" /\ req[r].op = "cancel"
        /\ req[r].resp.kind \notin {"call_not_found", "call_not_pending",
                                     "failed_to_update_status"})
          => /\ req[r].resp = Success("cancelled")
             /\ table[req[r].cid] = 0

\* C21: for every call, pushSent goes from false to true at most once and,
\* once true, no operation sets it back to false.
C21_PushSentNeverReset ==
    [][\A c \in CallIds : calls[c].pushSent => calls'[c].pushSent]_vars

\* C22: answeredAt, endedAt and durationSec are write-once: a value already
\* stored in a record is not replaced by any later step of answer, cancel,
\* missed, end, the sweep or a timer.
C22_FieldsWrittenOnce ==
    [][\A c \in CallIds :
          calls[c].exists =>
             /\ calls[c].answeredAt # None => calls'[c].answeredAt = calls[c].answeredAt
             /\ calls[c].endedAt # None => calls'[c].endedAt = calls[c].endedAt
             /\ calls[c].durationSec # None => calls'[c].durationSec = calls[c].durationSec]_vars

\* C23: in every record createdAt <= answeredAt and createdAt <= endedAt when
\* those are present, and answeredAt <= endedAt when both are present.
C23_TimestampsOrdered ==
    \A c \in CallIds :
       calls[c].exists =>
          /\ calls[c].answeredAt # None => Val(calls[c].createdAt) <= Val(calls[c].answeredAt)
          /\ calls[c].endedAt # None => Val(calls[c].createdAt) <= Val(calls[c].endedAt)
          /\ (calls[c].answeredAt # None /\ calls[c].endedAt # None)
                => Val(calls[c].answeredAt) <= Val(calls[c].endedAt)

C26_NoRecordNotFound ==
    [][\A r \in Reqs :
          (/\ \E op \in {"answer", "cancel", "missed", "end"} : Starts(r, op)
           /\ req'[r].cid \in CallIds
           /\ ~calls[req'[r].cid].exists
           /\ req'[r].resp.kind # "invalid_action")
             => /\ req'[r].pc = "done"
                /\ req'[r].resp = Resp("call_not_found")
                /\ calls' = calls /\ timers' = timers /\ table' = table
                /\ pushLog' = pushLog /\ lastPush' = lastPush]_vars

\* C26 witness: a cancel and a missed were answered call_not_found for a call
\* id without a record, while the timer of another call stayed armed.
C26_Witness ==
    \E r1 \in Reqs, r2 \in Reqs, c \in CallIds, c2 \in CallIds :
       /\ req[r1].pc = "done" /\ req[r1].op = "cancel" /\ req[r1].cid = c
       /\ req[r2].pc = "done" /\ req[r2].op = "missed" /\ req[r2].cid = c
       /\ req[r1].resp.kind = "call_not_found" /\ req[r2].resp.kind = "call_not_found"
       /\ ~req[r1].fault /\ ~req[r2].fault /\ dbAvailable
       /\ ~calls[c].exists
       /\ table[c2] # 0 /\ timers[table[c2]].state = "waiting"

\* C28: an invite whose group_id, caller_id or receiver_id is empty or
\* missing answers missing_fields in one step; no record is created, no timer
\* armed, no push sent.
C28_InviteValidation ==
    [][\A r \in Reqs, group_id \in InviteIds, caller_id \in InviteIds,
          receiver_id \in InviteIds :
          (/\ call_invite(r, group_id, caller_id, receiver_id)
           /\ (group_id = "" \/ caller_id = "" \/ receiver_id = ""))
             => /\ req'[r].pc = "done"
                /\ req'[r].resp = Resp("missing_fields")
                /\ req'[r].cid = 0
                /\ calls' = calls /\ timers' = timers /\ table' = table
                /\ pushLog' = pushLog /\ lastPush' = lastPush]_vars

\* C28 witness: an invite was refused with missing_fields while the store was
\* available; there is no record, no timer and no push.
C28_Witness ==
    \E r \in Reqs :
       /\ req[r].pc = "done" /\ req[r].op = "invite"
       /\ req[r].resp.kind = "missing_fields"
       /\ dbAvailable
       /\ \A c \in CallIds : ~calls[c].exists /\ table[c] = 0 /\ pushLog[c].sends = 0
       /\ \A t \in TimerIds : timers[t].state = "unused"

\* C25: getStatus is a pure read: for a call with a record it answers with
\* the record's fields, the stored status among them; for a call id with no
\* record it answers call_not_found; and it changes no record, no timer and
\* no entry of the timer table.
C25_StatusIsPureRead ==
    [][\A r \in Reqs :
          Starts(r, "status") =>
             LET c == req'[r].cid IN
             /\ req'[r].pc = "done"
             /\ calls' = calls /\ timers' = timers /\ table' = table
             /\ pushLog' = pushLog /\ lastPush' = lastPush
             /\ ReadsRecord(r) /\ dbAvailable =>
                   /\ req'[r].resp.kind = "success"
                   /\ req'[r].resp.status = calls[c].status
                   /\ req'[r].resp.record = Some(StatusJson(calls[c]))
                   /\ Val(req'[r].resp.record).callId = c
             /\ ~calls[c].exists => req'[r].resp = Resp("call_not_found")]_vars

\* C25 witness: a status request was answered with the pending call it read,
\* whose timer is still armed, and another was answered call_not_found for a
\* call id without a record.
C25_Witness ==
    \E r1 \in Reqs, r2 \in Reqs :
       /\ req[r1].pc = "done" /\ req[r1].op = "status"
       /\ req[r1].resp.kind = "success" /\ req[r1].resp.status = "pending"
       /\ calls[req[r1].cid].status = "pending"
       /\ table[req[r1].cid] # 0 /\ timers[table[req[r1].cid]].state = "waiting"
       /\ req[r2].pc = "done" /\ req[r2].op = "status"
       /\ req[r2].resp.kind = "call_not_found"
       /\ dbAvailable /\ ~req[r2].fault /\ ~calls[req[r2].cid].exists

\* The token the platform's gateway needs is absent: ios without voip_token,
\* android without fcm_token.
TokenMissing(platform, fcm_token, voip_token) ==
    \/ platform = "ios" /\ voip_token = None
    \/ platform = "android" /\ fcm_token = None

\* A PushResult of the missing-token branch, reached without a gateway call.
MissingTokenResult(result, platform, fcm_token, voip_token) ==
    /\ result.success = FALSE
    /\ result.error_code = "missing_token"
    /\ result.platform = platform
    /\ ~NetworkCall(PushTarget(platform, fcm_token, voip_token), result.error_code)

\* C27: when the token the platform needs is absent, both
\* send_incoming_call_push and send_call_cancelled_push return a PushResult
\* with success false and error code missing_token whatever the gateways
\* would answer, without calling a gateway; and a dispatch that returned
\* missing_token is not counted among the sends that reached a gateway.
C27_MissingTokenNoGatewayCall ==
    /\ [](\A platform \in Platforms, fcm_token \in Tokens, voip_token \in Tokens,
             g \in ApnsAnswers \cup FcmAnswers :
             TokenMissing(platform, fcm_token, voip_token) =>
                /\ MissingTokenResult(
                      send_incoming_call_push(platform, fcm_token, voip_token, g),
                      platform, fcm_token, voip_token)
                /\ MissingTokenResult(
                      send_call_cancelled_push(platform, fcm_token, voip_token, g),
                      platform, fcm_token, voip_token))
    /\ [][\A c \in CallIds :
            (pushLog'[c].sends # pushLog[c].sends /\ lastPush'.error_code = "missing_token")
               => /\ lastPush'.success = FALSE
                  /\ pushLog'[c].incoming = pushLog[c].incoming]_vars

\* C27 witness: a dispatch to an ios or android receiver returned
\* missing_token, and no send of the call reached a gateway.
C27_Witness ==
    /\ lastPush.error_code = "missing_token"
    /\ lastPush.platform \in {"ios", "android"}
    /\ \E c \in CallIds : pushLog[c].sends = 1 /\ pushLog[c].incoming = 0

\* The identity fields of a record and its display-name snapshots.
Identity(doc) ==
    [callId |-> doc.callId, channelName |-> doc.channelName, groupId |-> doc.groupId,
     caregiverUserId |-> doc.caregiverUserId, receiverId |-> doc.receiverId,
     groupNameSnapshot |-> doc.groupNameSnapshot,
     giverNameSnapshot |-> doc.giverNameSnapshot,
     receiverNameSnapshot |-> doc.receiverNameSnapshot]

\* C29: once a record is created, no step of answer, cancel, missed, end, the
\* sweep, a reservation or a timer changes its callId, channelName, groupId,
\* caller, receiverId or name snapshots, and the record stays in the store.
C29_IdentityImmutable ==
    [][\A c \in CallIds :
          calls[c].exists =>
             /\ calls'[c].exists
             /\ Identity(calls'[c]) = Identity(calls[c])]_vars

\* C29 witness: one call was accepted by an answer and another closed as
\* missed or cancelled, and both records still carry the identity they were
\* created with.
C29_Witness ==
    \E c1 \in CallIds, c2 \in CallIds :
       /\ calls[c1].status = "accepted"
       /\ calls[c2].status \in {"missed", "cancelled"}
       /\ \A c \in {c1, c2} :
             Identity(calls[c]) =
                [callId |-> c, channelName |-> c, groupId |-> GroupId,
                 caregiverUserId |-> CallerId, receiverId |-> ReceiverId,
                 groupNameSnapshot |-> "", giverNameSnapshot |-> CallerId,
                 receiverNameSnapshot |-> ""]

\* C30: an invite that passed validation with the store available has stored
\* a record whose channelName is the channel name generated from its call
\* id, which is the call id itself.
C30_ChannelNameIsCallId ==
    \A r \in Reqs :
       (/\ req[r].pc = "done" /\ req[r].op = "invite"
        /\ req[r].resp.kind \notin {"missing_fields", "firestore_unavailable"})
          => /\ req[r].cid \in CallIds
             /\ calls[req[r].cid].channelName = generate_channel_name(<<req[r].cid>>).val
             /\ calls[req[r].cid].channelName = calls[req[r].cid].callId

\* C36: a step that answers failed_to_update_status to answer, cancel,
\* missed or end leaves every record as it was, leaves the timers and the
\* timer table as they were, and sends no push.
C36_FailedUpdateChangesNothing ==
    [][\A r \in Reqs :
          (/\ req[r].pc # "done" /\ req'[r].pc = "done"
           /\ req'[r].op \in {"answer", "cancel", "missed", "end"}
           /\ req'[r].resp.kind = "failed_to_update_status")
             => /\ calls' = calls
                /\ timers' = timers /\ table' = table
                /\ pushLog' = pushLog /\ lastPush' = lastPush]_vars

\* Request r takes a step of answer, cancel, missed or end.
HandlerStep(r) ==
    /\ req'[r] # req[r]
    /\ req'[r].op \in {"answer", "cancel", "missed", "end"}
    /\ req'[r].cid \in CallIds

\* Timer t takes a step of its handler.
TimerStep(t) ==
    /\ timers'[t].state # timers[t].state
    /\ timers'[t].state \in {"write", "pop", "done"}

\* The record, the table entry and the timers of every call but c are
\* unchanged.
OthersUnchanged(c) ==
    /\ \A b \in CallIds \ {c} : calls'[b] = calls[b] /\ table'[b] = table[b]
    /\ \A t \in TimerIds : timers[t].cid # c => timers'[t] = timers[t]

C32_TimerWritesOnlyPending ==
    /\ [][\A t \in TimerIds :
            (timers[t].state = "write" /\ timers'[t].state # "write"
             /\ calls'[timers[t].cid] # calls[timers[t].cid])
               => calls[timers[t].cid].status = "pending"]_vars
    /\ [](\A r \in Reqs :
            (/\ req[r].pc = "done" /\ req[r].op \in {"answer", "cancel"}
             /\ req[r].resp.kind = "success")
               => calls[req[r].cid].status # "missed")

\* C33: the sweep's commit writes missed only to records that are pending
\* at the moment of the commit, and counts only those: a call answered,
\* cancelled or marked missed since the sweep's query is left as it is.
C33_SweepWritesOnlyPending ==
    [][\A r \in Reqs :
          (req[r].op = "sweep" /\ req[r].pc = "commit" /\ req'[r].pc = "done")
             => /\ \A c \in CallIds :
                      calls'[c] # calls[c] => calls[c].status = "pending"
                /\ req'[r].resp.count =
                      Cardinality({c \in CallIds : calls'[c] # calls[c]})
                /\ req'[r].resp.count <=
                      Cardinality({c \in CallIds : calls[c].status = "pending"})]_vars

\* Request r takes a step of reserve_push_send.
ReserveStep(r) == req'[r] # req[r] /\ req'[r].op = "reserve"

\* C34: a step of reserve_push_send changes the store only when it returns
\* reserved-now, and then only pushSent and pushReservedAt of its own
\* record (and the update time that goes with the write); a step that returns
\* already-reserved or error, or that only reads, changes no record and
\* creates none.
C34_ReserveFrame ==
    [][\A r \in Reqs :
          ReserveStep(r) =>
             IF req'[r].pc = "done" /\ req'[r].resp.kind = "reserved_now"
             THEN LET c == req'[r].cid IN
                  /\ calls[c].exists /\ ~calls[c].pushSent
                  /\ calls'[c].pushSent /\ calls'[c].pushReservedAt = Some(now)
                  /\ calls' = [calls EXCEPT ![c].pushSent = TRUE,
                                            ![c].pushReservedAt = calls'[c].pushReservedAt,
                                            ![c].ver = calls'[c].ver]
             ELSE calls' = calls]_vars

\* C34 witness: one reservation returned reserved-now, a second one on the
\* same call returned already-reserved, and the record is still pending.
C34_Witness ==
    \E r1 \in Reqs, r2 \in Reqs :
       /\ req[r1].pc = "done" /\ req[r1].op = "reserve"
       /\ req[r1].resp.kind = "reserved_now"
       /\ req[r2].pc = "done" /\ req[r2].op = "reserve"
       /\ req[r2].resp.kind = "already_reserved"
       /\ req[r1].cid = req[r2].cid
       /\ calls[req[r1].cid].status = "pending"
       /\ calls[req[r1].cid].pushSent
       /\ \E c \in CallIds : ~calls[c].exists

\* C35: a send for a platform other than ios or android reaches no gateway
\* and returns a result that differs from the missing-token result of a
\* known platform: its error code is not missing_token.
C35_UnknownPlatformRejected ==
    /\ [](lastPush.platform \notin {"ios", "android", "-"}
            => lastPush.success = FALSE /\ lastPush.error_code # "missing_token")
    /\ [][\A c \in CallIds :
            (pushLog'[c].sends # pushLog[c].sends
             /\ lastPush'.platform \notin {"ios", "android"})
               => pushLog'[c].incoming = pushLog[c].incoming]_vars

\* C37: the timestamps of every record agree with its status: pending has
\* neither answeredAt nor endedAt; accepted has answeredAt only; declined,
\* cancelled and missed have endedAt only; ended has both.
C37_TimestampsMatchStatus ==
    \A c \in CallIds :
       calls[c].exists =>
          LET answered == calls[c].answeredAt # None
              closed == calls[c].endedAt # None
              status == calls[c].status
          IN /\ status = "pending" => ~answered /\ ~closed
             /\ status = "accepted" => answered /\ ~closed
             /\ status \in {"declined", "cancelled", "missed"} => ~answered /\ closed
             /\ status = "ended" => answered /\ closed

\* C38: an invite that got past validation and the availability test
\* answers success, with pushSent true exactly when the dispatcher returned
\* success for its call, and with a pushError exactly when pushSent is false.
C38_InviteReportsPush ==
    \A r \in CreatedByInvite :
       /\ req[r].resp.kind = "success"
       /\ req[r].cid \in CallIds
       /\ (req[r].resp.pushError = "-")
             <=> (pushLog[req[r].cid].incoming > 0 /\ lastPush.success)

\* C39: the finally of a timer's handler removes the table's entry of its
\* call only when the entry is that timer; so every timer that is started,
\* not fired and not cancelled is the one the table holds for its call.
C39_HandlerPopsOwnEntry ==
    /\ [][\A t \in TimerIds :
            (timers[t].state = "pop" /\ timers'[t].state = "done"
             /\ table[timers[t].cid] # t)
               => table'[timers[t].cid] = table[timers[t].cid]]_vars
    /\ [](\A t \in TimerIds :
            timers[t].state = "waiting" => table[timers[t].cid] = t)

====
